---- MODULE Spec2Model ----
(***************************************************************************)
(* Model of vigilante_claro.py: one pass of the Claro document monitor     *)
(* (load state, fetch, extract, filter, notify, persist), the validity     *)
(* predicate es_valido and the state store cargar_estado/guardar_estado.   *)
(*                                                                         *)
(* Python values are tagged records [t, v]: None, or a str whose v is the  *)
(* tuple of its characters, so that lower/strip/startswith and strptime    *)
(* are computed on the characters.  A call's outcome is a record           *)
(* [exc, v]: exc = "" for a normal return, else the exception's class.     *)
(*                                                                         *)
(* What is abstracted: the HTML and the regular expressions of             *)
(* obtener_documentos (a page is the list of its catalogoArr literals, in  *)
(* page order, each one well-formed or not); the text of a notification (a *)
(* record of its kind and arguments, without timestamp or ASCII            *)
(* sanitisation); failures of the file system.  The calendar month changes *)
(* only between two invocations of main, never inside one.                 *)
(***************************************************************************)
EXTENDS Integers, Sequences, FiniteSets, TLC

\* Longest page (number of catalogoArr blocks) the fetch may return.
MaxDocs == 2

---------------------------------------------------------------------------
\* Python values

None == [t |-> "None", v |-> <<>>]
Absent == [t |-> "absent", v |-> <<>>]
Str(s) == [t |-> "str", v |-> s]
IsStr(x) == x.t = "str"

Ret(x) == [exc |-> "", v |-> x]
Raise(e) == [exc |-> e, v |-> FALSE]

---------------------------------------------------------------------------
\* str.lower, str.strip, str.startswith

UpperChars ==
    <<"A","B","C","D","E","F","G","H","I","J","K","L","M",
      "N","O","P","Q","R","S","T","U","V","W","X","Y","Z">>
LowerChars ==
    <<"a","b","c","d","e","f","g","h","i","j","k","l","m",
      "n","o","p","q","r","s","t","u","v","w","x","y","z">>

lower_char(c) ==
    IF \E i \in 1..Len(UpperChars) : UpperChars[i] = c
    THEN LowerChars[CHOOSE i \in 1..Len(UpperChars) : UpperChars[i] = c]
    ELSE c

lower(s) == [i \in 1..Len(s) |-> lower_char(s[i])]

IsSpace(c) == c \in {" ", "\t", "\n"}

RECURSIVE lstrip(_)
lstrip(s) == IF s # <<>> /\ IsSpace(Head(s)) THEN lstrip(Tail(s)) ELSE s

RECURSIVE rstrip(_)
rstrip(s) ==
    IF s # <<>> /\ IsSpace(s[Len(s)]) THEN rstrip(SubSeq(s, 1, Len(s) - 1)) ELSE s

strip(s) == rstrip(lstrip(s))

startswith(s, p) == Len(s) >= Len(p) /\ SubSeq(s, 1, Len(p)) = p

vigente == <<"v","i","g","e","n","t","e">>

---------------------------------------------------------------------------
\* datetime.strptime(s, "%d-%m-%Y")

DigitChars == <<"0","1","2","3","4","5","6","7","8","9">>
IsDigit(c) == \E i \in 1..10 : DigitChars[i] = c
DigitVal(c) == (CHOOSE i \in 1..10 : DigitChars[i] = c) - 1

\* %d : 3[0-1]|[1-2]\d|0[1-9]|[1-9]| [1-9]
match_d(s) ==
    \/ Len(s) = 2 /\ s[1] = "3" /\ s[2] \in {"0", "1"}
    \/ Len(s) = 2 /\ s[1] \in {"1", "2"} /\ IsDigit(s[2])
    \/ Len(s) = 2 /\ s[1] \in {"0", " "} /\ IsDigit(s[2]) /\ s[2] # "0"
    \/ Len(s) = 1 /\ IsDigit(s[1]) /\ s[1] # "0"

\* %m : 1[0-2]|0[1-9]|[1-9]
match_m(s) ==
    \/ Len(s) = 2 /\ s[1] = "1" /\ s[2] \in {"0", "1", "2"}
    \/ Len(s) = 2 /\ s[1] = "0" /\ IsDigit(s[2]) /\ s[2] # "0"
    \/ Len(s) = 1 /\ IsDigit(s[1]) /\ s[1] # "0"

\* %Y : \d\d\d\d
match_Y(s) == Len(s) = 4 /\ \A i \in 1..4 : IsDigit(s[i])

RECURSIVE int_of(_)
int_of(s) ==
    IF s = <<>> THEN 0
    ELSE 10 * int_of(SubSeq(s, 1, Len(s) - 1)) + DigitVal(s[Len(s)])

is_leap(y) == (y % 4 = 0 /\ y % 100 # 0) \/ y % 400 = 0

days_in_month(y, m) ==
    IF m = 2 THEN (IF is_leap(y) THEN 29 ELSE 28)
    ELSE IF m \in {4, 6, 9, 11} THEN 30 ELSE 31

Dashes(s) == {i \in 1..Len(s) : s[i] = "-"}
Min(S) == CHOOSE x \in S : \A y \in S : x <= y

\* The three fields hold no "-", so the text splits at its first two dashes; the
\* whole text must be consumed ("unconverted data remains" otherwise), and the
\* datetime constructor rejects year 0 and a day past the month's end.
strptime(s) ==
    IF Cardinality(Dashes(s)) < 2 THEN Raise("ValueError")
    ELSE LET i == Min(Dashes(s))
             j == Min(Dashes(s) \ {i})
             d == SubSeq(s, 1, i - 1)
             m == SubSeq(s, i + 1, j - 1)
             y == SubSeq(s, j + 1, Len(s))
         IN  IF ~(match_d(d) /\ match_m(m) /\ match_Y(y)) THEN Raise("ValueError")
             ELSE LET dd == int_of(lstrip(d))
                      mm == int_of(m)
                      yy == int_of(y)
                  IN  IF yy < 1 \/ dd > days_in_month(yy, mm)
                      THEN Raise("ValueError")
                      ELSE Ret([year |-> yy, month |-> mm, day |-> dd])

---------------------------------------------------------------------------
\* The validity filter.  hoy is datetime.now(): [year, month].

\* strptime raises TypeError for an argument that is no str; only ValueError
\* is handled.
es_mes_actual(fecha, hoy) ==
    IF ~IsStr(fecha) THEN Raise("TypeError")
    ELSE LET f == strptime(fecha.v)
         IN  IF f.exc = "ValueError" THEN Ret(FALSE)
             ELSE Ret(f.v.year = hoy.year /\ f.v.month = hoy.month)

\* doc.get("vigencia", ""): the default serves a missing key only, a None
\* value has no .lower().  `and` evaluates es_mes_actual only after a true
\* left operand.
es_valido(doc, hoy) ==
    LET raw == IF doc.vigencia = Absent THEN Str(<<>>) ELSE doc.vigencia
    IN  IF ~IsStr(raw) THEN Raise("AttributeError")
        ELSE IF ~startswith(strip(lower(raw.v)), vigente) THEN Ret(FALSE)
        ELSE IF doc.publicado = Absent THEN Raise("KeyError")
        ELSE es_mes_actual(doc.publicado, hoy)

---------------------------------------------------------------------------
\* The source page.  A response is a transport failure of the GET or an HTTP
\* response [status, marker, bloques]: marker says whether some script holds
\* "catalogoArr[", bloques are the matched object literals in page order, each
\* a dict literal (bien) or text ast.literal_eval rejects.

Raw(id, fecha, vig) ==
    [fi_documento |-> id, fc_titulo |-> Str(<<"Doc">>),
     fd_fecha_publicacion |-> fecha, fc_vigencia_descripcion |-> vig,
     fc_url_documento |-> Str(<<"/doc.pdf">>)]

RawVacio == Raw(Absent, Absent, Absent)
Bloque(d) == [bien |-> TRUE, d |-> d]
BloqueMalo == [bien |-> FALSE, d |-> RawVacio]

Id1 == Str(<<"1">>)
Id2 == Str(<<"2">>)
S_Vigente == Str(<<"V","i","g","e","n","t","e">>)
S_VIGENTE_pad == Str(<<" ","V","I","G","E","N","T","E"," ">>)
S_Derogado == Str(<<"D","e","r","o","g","a","d","o">>)
F_15_01_2024 == Str(<<"1","5","-","0","1","-","2","0","2","4">>)
F_3_1_2024 == Str(<<"3","-","1","-","2","0","2","4">>)
F_01_02_2024 == Str(<<"0","1","-","0","2","-","2","0","2","4">>)
F_31_02_2024 == Str(<<"3","1","-","0","2","-","2","0","2","4">>)

Bloques ==
    { Bloque(Raw(Id1, F_15_01_2024, S_Vigente)),
      Bloque(Raw(Id2, F_3_1_2024, S_VIGENTE_pad)),
      Bloque(Raw(Id1, Absent, S_Vigente)),
      Bloque(Raw(Id2, F_31_02_2024, S_Vigente)),
      Bloque(Raw(Id2, F_01_02_2024, S_Vigente)),
      Bloque(Raw(Id1, F_15_01_2024, S_Derogado)),
      BloqueMalo }

SeqsUpTo(S, n) == UNION {[1..k -> S] : k \in 0..n}

Paginas == SeqsUpTo(Bloques, MaxDocs)

Http(st, mk, bs) == [tipo |-> "http", status |-> st, marker |-> mk, bloques |-> bs]
Fallo(e) == [tipo |-> e, status |-> 0, marker |-> FALSE, bloques |-> <<>>]

Respuestas ==
    {Fallo("Timeout"), Fallo("ConnectionError")}
    \cup {Http(st, FALSE, <<>>) : st \in {200, 503}}
    \cup {Http(st, TRUE, bs) : st \in {200, 503}, bs \in Paginas}

\* d_js.get(k) and d_js.get(k, default)
get(d, k) == IF d[k] = Absent THEN None ELSE d[k]
get_default(d, k, def) == IF d[k] = Absent THEN def ELSE d[k]

BaseUrl == <<"https://www.claro.com.ec">>

\* One block of the extraction loop: literal_eval, then the five fields.
\* "https://..." + x raises TypeError when x is no str.
extraer(b) ==
    IF ~b.bien THEN Raise("SyntaxError")
    ELSE LET path == get_default(b.d, "fc_url_documento", Str(<<>>))
         IN  IF ~IsStr(path) THEN Raise("TypeError")
             ELSE Ret([id |-> get(b.d, "fi_documento"),
                       titulo |-> get(b.d, "fc_titulo"),
                       publicado |-> get(b.d, "fd_fecha_publicacion"),
                       vigencia |-> get(b.d, "fc_vigencia_descripcion"),
                       url |-> Str(BaseUrl \o path.v)])

\* The first exception of a sequence of outcomes, "" when there is none.
PrimerError(rs) ==
    IF \E i \in 1..Len(rs) : rs[i].exc # ""
    THEN rs[CHOOSE i \in 1..Len(rs) :
                rs[i].exc # "" /\ \A j \in 1..(i - 1) : rs[j].exc = ""].exc
    ELSE ""

\* requests.get(URL, timeout=20).text, then the extraction.  The response's
\* status is not read: the body of any HTTP response is parsed.
obtener_documentos(r) ==
    IF r.tipo # "http" THEN Raise(r.tipo)
    ELSE IF ~r.marker THEN Raise("RuntimeError")
    ELSE LET rs == [i \in 1..Len(r.bloques) |-> extraer(r.bloques[i])]
         IN  IF PrimerError(rs) # "" THEN Raise(PrimerError(rs))
             ELSE Ret([i \in 1..Len(rs) |-> rs[i].v])

---------------------------------------------------------------------------
\* The state store.  The file holds JSON text: a list of objects, each a list
\* of <<key, value>> members in insertion order; a value is a JSON string or
\* null.

Claves == <<"id", "titulo", "publicado", "vigencia", "url">>

json_value(x) ==
    IF IsStr(x) THEN [j |-> "string", s |-> x.v] ELSE [j |-> "null", s |-> <<>>]

py_value(t) == IF t.j = "string" THEN Str(t.s) ELSE None

json_dumps(lista) ==
    [i \in 1..Len(lista) |->
        [k \in 1..Len(Claves) |-> <<Claves[k], json_value(lista[i][Claves[k]])>>]]

member(obj, key) == obj[CHOOSE k \in 1..Len(obj) : obj[k][1] = key][2]

json_loads(texto) ==
    [i \in 1..Len(texto) |->
        [id |-> py_value(member(texto[i], "id")),
         titulo |-> py_value(member(texto[i], "titulo")),
         publicado |-> py_value(member(texto[i], "publicado")),
         vigencia |-> py_value(member(texto[i], "vigencia")),
         url |-> py_value(member(texto[i], "url"))]]

NoFile == [existe |-> FALSE, texto |-> <<>>]

cargar_estado(f) == IF f.existe THEN json_loads(f.texto) ELSE <<>>

\* [d for d in lista if es_valido(d)], then the whole-file write.  The result's
\* v is the file afterwards; an exception of the filter leaves f as it was.
guardar_estado(lista, f, hoy) ==
    LET rs == [i \in 1..Len(lista) |-> es_valido(lista[i], hoy)]
        RECURSIVE pick(_)
        pick(i) == IF i > Len(lista) THEN <<>>
                   ELSE (IF rs[i].v THEN <<lista[i]>> ELSE <<>>) \o pick(i + 1)
    IN  IF PrimerError(rs) # "" THEN [exc |-> PrimerError(rs), v |-> f]
        ELSE [exc |-> "", v |-> [existe |-> TRUE, texto |-> json_dumps(pick(1))]]

---------------------------------------------------------------------------
\* The program's state

VARIABLES
    hoy,        \* datetime.now(): [year, month]
    file,       \* STATE_FILE
    webhook,    \* whether DISCORD_WEBHOOK is set
    pc,         \* main's position: idle, try, filtrar, avisar, except, done, crashed
    conocidos,  \* main's set of known ids
    docs,       \* main's docs
    nuevos,     \* main's nuevos
    idx,        \* position of the loop over nuevos
    err,        \* the exception the handler of main caught, "" for none
    consola,    \* the lines this invocation printed
    resp,       \* the response the GET of this invocation got
    gets,       \* GETs of the source page in this invocation
    file0,      \* the file when this invocation started
    K0,         \* conocidos as built at startup
    escrito,    \* whether this invocation wrote the file
    fallos,     \* failed webhook deliveries of this invocation
    avisados,   \* ids with a new-document notification this month
    repetidos,  \* ids with more than one this month
    limpio,     \* every pass of this month had unique ids and ended without error
    arg,        \* argument of the function under test (unit specifications)
    ret         \* its outcome

prog == <<pc, conocidos, docs, nuevos, idx, err, consola, resp, gets, file0, K0,
          escrito, fallos>>
mes == <<avisados, repetidos, limpio>>
unit == <<arg, ret>>
vars == <<hoy, file, webhook, prog, mes, unit>>

Enero == [year |-> 2024, month |-> 1]
Febrero == [year |-> 2024, month |-> 2]

DocVacio == [id |-> None, titulo |-> None, publicado |-> None,
             vigencia |-> None, url |-> None]
SinRespuesta == Fallo("")

Msg(k, n, d, e) ==
    [k |-> k, n |-> n, titulo |-> d.titulo, publicado |-> d.publicado,
     url |-> d.url, e |-> e]
MsgInicio(n) == Msg("Monitor iniciado", n, DocVacio, "")
MsgNuevo(d) == Msg("Nuevo documento", 0, d, "")
MsgSinNovedades == Msg("Sin novedades", 0, DocVacio, "")
MsgError(e) == Msg("Error general", 0, DocVacio, e)
LineaErrorDiscord == Msg("Error Discord", 0, DocVacio, "RequestException")

\* Outcomes of requests.post inside notify; no POST without a webhook.
Posts == IF webhook THEN {"ok", "RequestException"} ELSE {"sin webhook"}
Falla(post) == IF post = "RequestException" THEN 1 ELSE 0

\* notify without its except clause.
notify_catches_nothing(e) == FALSE

\* except requests.RequestException
notify_catches(e) == e = "RequestException"

\* print, then the POST.  v: the lines printed; exc: what leaves notify.
notify(msg, post) ==
    IF post \in {"ok", "sin webhook"} THEN Ret(<<msg>>)
    ELSE IF notify_catches(post) THEN Ret(<<msg, LineaErrorDiscord>>)
    ELSE [exc |-> post, v |-> <<msg>>]

\* main with a handler for the extraction error only.
main_catches_runtime_only(e) == e = "RuntimeError"

\* except Exception as e
main_catches(e) == TRUE

\* Where an exception raised inside the try block leads.
Lanza(e) == IF main_catches(e) THEN "except" ELSE "crashed"

\* main saving after every pass.
guarda_siempre(ns) == TRUE

\* if nuevos:
hay_nuevos(ns) == ns # <<>>

ids_unicos(ds) == \A i, j \in 1..Len(ds) : ds[i].id = ds[j].id => i = j

InitProg ==
    /\ pc = "idle"
    /\ conocidos = {}
    /\ docs = <<>>
    /\ nuevos = <<>>
    /\ idx = 0
    /\ err = ""
    /\ consola = <<>>
    /\ resp = SinRespuesta
    /\ gets = 0
    /\ file0 = NoFile
    /\ K0 = {}
    /\ escrito = FALSE
    /\ fallos = 0

InitMes == avisados = {} /\ repetidos = {} /\ limpio = TRUE

Init ==
    /\ hoy = Enero
    /\ file = NoFile
    /\ webhook \in BOOLEAN
    /\ InitProg
    /\ InitMes
    /\ arg = <<>>
    /\ ret = Ret(FALSE)

\* Lines 113-114: the known set from the persisted records valid now, then the
\* startup notification.  Both are outside the try block.
Inicio ==
    /\ pc = "idle"
    /\ LET est == cargar_estado(file)
           rs == [i \in 1..Len(est) |-> es_valido(est[i], hoy)]
           K == {est[i].id : i \in {j \in 1..Len(est) : rs[j].v}}
       IN  IF PrimerError(rs) # ""
           THEN /\ pc' = "crashed"
                /\ UNCHANGED <<conocidos, consola, K0, fallos>>
           ELSE \E post \in Posts :
                  LET n == notify(MsgInicio(Cardinality(K)), post)
                  IN  /\ conocidos' = K
                      /\ fallos' = Falla(post)
                      /\ K0' = K
                      /\ consola' = n.v
                      /\ pc' = IF n.exc = "" THEN "try" ELSE "crashed"
    /\ file0' = file
    /\ UNCHANGED <<hoy, file, webhook, docs, nuevos, idx, err, resp, gets, escrito,
                   unit>>

\* Line 117
Obtener ==
    /\ pc = "try"
    /\ \E r \in Respuestas :
         LET o == obtener_documentos(r)
         IN  /\ resp' = r
             /\ gets' = gets + 1
             /\ IF o.exc = ""
                THEN /\ docs' = o.v
                     /\ pc' = "filtrar"
                     /\ err' = err
                ELSE /\ docs' = docs
                     /\ pc' = Lanza(o.exc)
                     /\ err' = o.exc
    /\ UNCHANGED <<hoy, file, webhook, conocidos, nuevos, idx, consola, file0, K0,
                   escrito, fallos, unit>>

\* Line 118: d["id"] not in conocidos and es_valido(d)
es_nuevo(d, K, h) == IF d.id \in K THEN Ret(FALSE) ELSE es_valido(d, h)

RECURSIVE Escoger(_, _)
Escoger(ds, rs) ==
    IF ds = <<>> THEN <<>>
    ELSE (IF Head(rs).v THEN <<Head(ds)>> ELSE <<>>) \o Escoger(Tail(ds), Tail(rs))

Filtrar ==
    /\ pc = "filtrar"
    /\ LET rs == [i \in 1..Len(docs) |-> es_nuevo(docs[i], conocidos, hoy)]
       IN  IF PrimerError(rs) # ""
           THEN /\ pc' = Lanza(PrimerError(rs))
                /\ err' = PrimerError(rs)
                /\ UNCHANGED <<nuevos, idx>>
           ELSE /\ nuevos' = Escoger(docs, rs)
                /\ idx' = 1
                /\ pc' = "avisar"
                /\ err' = err
    /\ UNCHANGED <<hoy, file, webhook, conocidos, docs, consola, resp, gets, file0,
                   K0, escrito, fallos, unit>>

\* Lines 120-122, one iteration
Avisar ==
    /\ pc = "avisar"
    /\ idx <= Len(nuevos)
    /\ \E post \in Posts :
         LET d == nuevos[idx]
             n == notify(MsgNuevo(d), post)
         IN  /\ consola' = consola \o n.v
             /\ fallos' = fallos + Falla(post)
             /\ IF n.exc = ""
                THEN /\ conocidos' = conocidos \cup {d.id}
                     /\ idx' = idx + 1
                     /\ UNCHANGED <<pc, err>>
                ELSE /\ pc' = Lanza(n.exc)
                     /\ err' = n.exc
                     /\ UNCHANGED <<conocidos, idx>>
    /\ UNCHANGED <<hoy, file, webhook, docs, nuevos, resp, gets, file0, K0, escrito,
                   unit>>

\* Lines 124-125
Guardar ==
    /\ pc = "avisar"
    /\ idx > Len(nuevos)
    /\ hay_nuevos(nuevos)
    /\ LET g == guardar_estado(docs, file, hoy)
       IN  /\ file' = g.v
           /\ pc' = IF g.exc = "" THEN "done" ELSE Lanza(g.exc)
           /\ err' = g.exc
           /\ escrito' = (g.exc = "")
    /\ UNCHANGED <<hoy, webhook, conocidos, docs, nuevos, idx, consola, resp, gets,
                   file0, K0, fallos, unit>>

\* Lines 126-127
SinNovedades ==
    /\ pc = "avisar"
    /\ idx > Len(nuevos)
    /\ ~hay_nuevos(nuevos)
    /\ \E post \in Posts :
         LET n == notify(MsgSinNovedades, post)
         IN  /\ consola' = consola \o n.v
             /\ fallos' = fallos + Falla(post)
             /\ pc' = IF n.exc = "" THEN "done" ELSE Lanza(n.exc)
             /\ err' = n.exc
    /\ UNCHANGED <<hoy, file, webhook, conocidos, docs, nuevos, idx, resp, gets,
                   file0, K0, escrito, unit>>

\* Lines 128-129
Capturar ==
    /\ pc = "except"
    /\ \E post \in Posts :
         LET n == notify(MsgError(err), post)
         IN  /\ consola' = consola \o n.v
             /\ fallos' = fallos + Falla(post)
             /\ pc' = IF n.exc = "" THEN "done" ELSE "crashed"
    /\ UNCHANGED <<hoy, file, webhook, conocidos, docs, nuevos, idx, err, resp, gets,
                   file0, K0, escrito, unit>>

\* main has returned; the external scheduler may start it again.
Salir ==
    /\ pc = "done"
    /\ pc' = "idle"
    /\ conocidos' = {}
    /\ docs' = <<>>
    /\ nuevos' = <<>>
    /\ idx' = 0
    /\ err' = ""
    /\ consola' = <<>>
    /\ resp' = SinRespuesta
    /\ gets' = 0
    /\ file0' = NoFile
    /\ K0' = {}
    /\ escrito' = FALSE
    /\ fallos' = 0
    /\ UNCHANGED <<hoy, file, webhook, unit>>

\* The calendar month changes between two invocations.
CambiaMes ==
    /\ pc = "idle"
    /\ hoy = Enero
    /\ hoy' = Febrero
    /\ UNCHANGED <<file, webhook, prog, unit>>

\* One step of the program or of the calendar; the month's record of
\* notifications is not kept.
Next ==
    \/ Inicio /\ UNCHANGED mes
    \/ Obtener /\ UNCHANGED mes
    \/ Filtrar /\ UNCHANGED mes
    \/ Avisar /\ UNCHANGED mes
    \/ Guardar /\ UNCHANGED mes
    \/ SinNovedades /\ UNCHANGED mes
    \/ Capturar /\ UNCHANGED mes
    \/ Salir /\ UNCHANGED mes
    \/ CambiaMes /\ UNCHANGED mes

Spec == Init /\ [][Next]_vars

\* The same steps, with the record of the month's notifications: which ids
\* were notified, which more than once, and whether every pass so far had
\* unique ids and ended without error.
NextMes ==
    \/ Inicio /\ UNCHANGED mes
    \/ /\ Obtener
       /\ limpio' = (limpio /\ (pc' = "filtrar" => ids_unicos(docs')))
       /\ UNCHANGED <<avisados, repetidos>>
    \/ Filtrar /\ UNCHANGED mes
    \/ /\ Avisar
       /\ avisados' = avisados \cup {nuevos[idx].id}
       /\ repetidos' = IF nuevos[idx].id \in avisados
                        THEN repetidos \cup {nuevos[idx].id}
                        ELSE repetidos
       /\ UNCHANGED limpio
    \/ Guardar /\ UNCHANGED mes
    \/ SinNovedades /\ UNCHANGED mes
    \/ /\ Capturar
       /\ limpio' = FALSE
       /\ UNCHANGED <<avisados, repetidos>>
    \/ Salir /\ UNCHANGED mes
    \/ /\ CambiaMes
       /\ avisados' = {}
       /\ repetidos' = {}
       /\ limpio' = TRUE

SpecMes == Init /\ [][NextMes]_vars

---------------------------------------------------------------------------
\* es_valido on its own: one call on a record, at a date.

S_vigentes == Str(<<"v","i","g","e","n","t","e","s">>)
S_Vig == Str(<<"V","i","g">>)
S_No_vigente == Str(<<"N","o"," ","v","i","g","e","n","t","e">>)
F_sp3_01_2024 == Str(<<" ","3","-","0","1","-","2","0","2","4">>)
F_29_02_2024 == Str(<<"2","9","-","0","2","-","2","0","2","4">>)
F_29_02_2023 == Str(<<"2","9","-","0","2","-","2","0","2","3">>)
F_15_01_2024_barras == Str(<<"1","5","/","0","1","/","2","0","2","4">>)
F_2024_01_15 == Str(<<"2","0","2","4","-","0","1","-","1","5">>)
F_15_01_24 == Str(<<"1","5","-","0","1","-","2","4">>)
F_15_13_2024 == Str(<<"1","5","-","1","3","-","2","0","2","4">>)
F_15_01_2024_sp == Str(<<"1","5","-","0","1","-","2","0","2","4"," ">>)
F_15_01_0000 == Str(<<"1","5","-","0","1","-","0","0","0","0">>)

Vigencias ==
    {S_Vigente, S_VIGENTE_pad, S_vigentes, S_Vig, S_No_vigente, S_Derogado,
     Str(<<>>), None, Absent}

Fechas ==
    {F_15_01_2024, F_3_1_2024, F_sp3_01_2024, F_01_02_2024, F_31_02_2024,
     F_29_02_2024, F_29_02_2023, F_15_01_2024_barras, F_2024_01_15, F_15_01_24,
     F_15_13_2024, F_15_01_2024_sp, F_15_01_0000, Str(<<>>), None}

Hoys == {Enero, Febrero, [year |-> 2023, month |-> 2], [year |-> 2025, month |-> 1]}

Doc(id, fecha, vig) ==
    [id |-> id, titulo |-> Str(<<"Doc">>), publicado |-> fecha, vigencia |-> vig,
     url |-> Str(BaseUrl \o <<"/doc.pdf">>)]

Pendiente == [exc |-> "pendiente", v |-> FALSE]

InitValido ==
    /\ hoy \in Hoys
    /\ file = NoFile
    /\ webhook = FALSE
    /\ InitProg
    /\ InitMes
    /\ arg \in {Doc(Id1, f, v) : f \in Fechas, v \in Vigencias}
    /\ ret = Pendiente

LlamaEsValido ==
    /\ ret = Pendiente
    /\ ret' = es_valido(arg, hoy)
    /\ UNCHANGED <<hoy, file, webhook, prog, mes, arg>>

SpecValido == InitValido /\ [][LlamaEsValido]_vars

---------------------------------------------------------------------------
\* The state store on its own: guardar_estado(arg), then cargar_estado().

DocsEstado ==
    { Doc(Id1, F_15_01_2024, S_Vigente),
      Doc(Id2, F_3_1_2024, S_VIGENTE_pad),
      Doc(Id2, F_01_02_2024, S_Vigente),
      Doc(Id1, F_15_01_2024, S_Derogado),
      Doc(Id2, F_31_02_2024, S_Vigente),
      Doc(Id1, None, S_Vigente) }

InitEstado ==
    /\ hoy \in {Enero, Febrero}
    /\ file \in {NoFile,
                  guardar_estado(<<Doc(Id2, F_01_02_2024, S_Vigente)>>, NoFile, Febrero).v}
    /\ webhook = FALSE
    /\ pc = "guardar"
    /\ conocidos = {}
    /\ docs = <<>>
    /\ nuevos = <<>>
    /\ idx = 0
    /\ err = ""
    /\ consola = <<>>
    /\ resp = SinRespuesta
    /\ gets = 0
    /\ file0 = file
    /\ K0 = {}
    /\ escrito = FALSE
    /\ fallos = 0
    /\ InitMes
    /\ arg \in SeqsUpTo(DocsEstado, MaxDocs)
    /\ ret = Pendiente

LlamaGuardar ==
    /\ pc = "guardar"
    /\ LET g == guardar_estado(arg, file, hoy)
       IN  /\ file' = g.v
           /\ err' = g.exc
           /\ escrito' = (g.exc = "")
    /\ pc' = "cargar"
    /\ UNCHANGED <<hoy, webhook, conocidos, docs, nuevos, idx, consola, resp, gets,
                   file0, K0, fallos, mes, unit>>

LlamaCargar ==
    /\ pc = "cargar"
    /\ ret' = Ret(cargar_estado(file))
    /\ pc' = "fin"
    /\ UNCHANGED <<hoy, file, webhook, conocidos, docs, nuevos, idx, err, consola,
                   resp, gets, file0, K0, escrito, fallos, mes, arg>>

NextEstado == LlamaGuardar \/ LlamaCargar

SpecEstado == InitEstado /\ [][NextEstado]_vars

---------------------------------------------------------------------------
\* Properties

Lineas(k) == SelectSeq(consola, LAMBDA m : m.k = k)
Valido(d, h) == es_valido(d, h) = Ret(TRUE)

\* The records of the fetched page that are new and valid, in page order.
NuevosValidos == SelectSeq(docs, LAMBDA d : d.id \notin K0 /\ Valido(d, hoy))

Ids(ds) == {ds[i].id : i \in 1..Len(ds)}
Fetched == gets = 1 /\ obtener_documentos(resp).exc = ""

\* C1: an invocation of main writes the state file only if the pass found a
\* new valid document (valid, id not in the startup known set); after a pass
\* that found none, or that ended in the handler, the file is what it was
\* before main; and a pass that completes with no new document prints exactly
\* one "Sin novedades" line and no "Nuevo documento" line.
C1_EscribeSoloConNuevos ==
    /\ escrito => NuevosValidos # <<>>
    /\ pc = "done" =>
        /\ (err # "" \/ NuevosValidos = <<>>) => (~escrito /\ file = file0)
        /\ (err = "" /\ NuevosValidos = <<>>) =>
              (Len(Lineas("Sin novedades")) = 1 /\ Lineas("Nuevo documento") = <<>>)

C1_Witness ==
    /\ pc = "done" /\ err = ""
    /\ file0.existe /\ K0 # {}
    /\ docs # <<>> /\ Ids(docs) \subseteq K0
    /\ file = file0
    /\ Len(Lineas("Sin novedades")) = 1

\* C2: once main has fetched a sequence F with known set K, its new-document
\* notifications are, in page order, one per record of F that is valid and
\* whose id is not in K, and the known set ends as K plus their ids.
C2_AvisosSonNuevosValidos ==
    (pc = "done" /\ Fetched) =>
        /\ Lineas("Nuevo documento") =
              [i \in 1..Len(NuevosValidos) |-> MsgNuevo(NuevosValidos[i])]
        /\ conocidos = K0 \cup Ids(NuevosValidos)

\* The condition of validity as the specification words it.
CondicionValido(d, h) ==
    /\ IsStr(d.vigencia)
    /\ startswith(strip(lower(d.vigencia.v)), vigente)
    /\ IsStr(d.publicado)
    /\ strptime(d.publicado.v).exc = ""
    /\ strptime(d.publicado.v).v.year = h.year
    /\ strptime(d.publicado.v).v.month = h.month

\* C3: es_valido(d) returns true iff d's status, lowercased and trimmed, starts
\* with "vigente" and d's date parses as day-month-year and its (year, month)
\* is the current one; in every other case it returns false.
C3_EsValidoIff == ret # Pendiente => ret = Ret(CondicionValido(arg, hoy))

\* C4: guardar_estado(L) followed by cargar_estado() returns exactly the
\* records of L valid at save time, in order, fields unchanged.
C4_GuardarCargar ==
    pc = "fin" => ret.v = SelectSeq(arg, LAMBDA d : Valido(d, hoy))

\* C5: after startup, a failure raised anywhere in the pass is caught by
\* main's handler: main prints exactly one "Error general" line for it, has
\* made at most one GET, and returns; it never ends by an uncaught exception.
C5_ErrorCapturado ==
    /\ gets <= 1
    /\ pc = "crashed" => (gets = 0 /\ err = "")
    /\ err # "" => pc \in {"except", "done"}
    /\ pc = "except" => (Lineas("Error general") = <<>> /\ ENABLED Capturar)
    /\ (pc = "done" /\ err # "") => Lineas("Error general") = <<MsgError(err)>>
    /\ (pc = "done" /\ err = "") => Lineas("Error general") = <<>>

C5_Witness ==
    /\ pc = "done" /\ err = "TypeError" /\ gets = 1
    /\ Lineas("Nuevo documento") # <<>>
    /\ Len(Lineas("Error general")) = 1

\* The GET timed out, could not connect, or was answered with a non-2xx status.
FalloTransporte ==
    \/ resp.tipo \in {"Timeout", "ConnectionError"}
    \/ resp.tipo = "http" /\ resp.status \notin 200..299

\* C6: a timeout, a connection failure or a non-2xx response of the GET is
\* fatal to the pass: nothing is extracted, no new-document notification, no
\* write of the state file, and exactly one error notification.
C6_TransporteFatal ==
    (pc = "done" /\ FalloTransporte) =>
        /\ docs = <<>>
        /\ Lineas("Nuevo documento") = <<>>
        /\ ~escrito
        /\ Len(Lineas("Error general")) = 1

MsgsNuevos(ns) == [i \in 1..Len(ns) |-> MsgNuevo(ns[i])]

Resultado(c, K, f) == [consola |-> c, conocidos |-> K, file |-> f]

\* What main prints and leaves behind from file f0 at date h on response r,
\* deliveries aside.
Esperado(f0, h, r) ==
    LET est == cargar_estado(f0)
        K == {est[i].id : i \in {j \in 1..Len(est) : Valido(est[j], h)}}
        ini == <<MsgInicio(Cardinality(K))>>
        o == obtener_documentos(r)
    IN  IF o.exc # "" THEN Resultado(ini \o <<MsgError(o.exc)>>, K, f0)
        ELSE LET rs == [i \in 1..Len(o.v) |-> es_nuevo(o.v[i], K, h)]
                 ns == Escoger(o.v, rs)
                 g == guardar_estado(o.v, f0, h)
             IN  IF PrimerError(rs) # ""
                 THEN Resultado(ini \o <<MsgError(PrimerError(rs))>>, K, f0)
                 ELSE IF ns = <<>>
                 THEN Resultado(ini \o <<MsgSinNovedades>>, K, f0)
                 ELSE IF g.exc # ""
                 THEN Resultado(ini \o MsgsNuevos(ns) \o <<MsgError(g.exc)>>,
                                K \cup Ids(ns), f0)
                 ELSE Resultado(ini \o MsgsNuevos(ns), K \cup Ids(ns), g.v)

\* C7: a failed webhook delivery never aborts the run nor changes its outcome:
\* the console lines other than "Error Discord", the known set and the state
\* file are those of the same invocation with no webhook at all, and each
\* failed delivery adds one "Error Discord" line.
C7_WebhookNoAfecta ==
    /\ pc # "crashed"
    /\ Len(Lineas("Error Discord")) = fallos
    /\ pc = "done" =>
        Resultado(SelectSeq(consola, LAMBDA m : m.k # "Error Discord"),
                  conocidos, file) = Esperado(file0, hoy, resp)

C7_Witness ==
    /\ pc = "done" /\ webhook /\ fallos >= 2
    /\ escrito
    /\ Lineas("Nuevo documento") # <<>>

\* x is a text that parses as day-month-year.
FechaParsea(x) == IsStr(x) /\ strptime(x.v).exc = ""

\* C8: a record whose date does not parse as day-month-year (absent date
\* included) is not current: es_valido returns false for it, and a pass whose
\* records all have a status text does not end in the handler because of it.
C8_FechaMalaNoEsFatal ==
    /\ \A i \in 1..Len(docs) :
          ~FechaParsea(docs[i].publicado) => es_valido(docs[i], hoy) = Ret(FALSE)
    /\ (pc = "done" /\ Fetched /\ \A i \in 1..Len(docs) : IsStr(docs[i].vigencia))
          => err = ""

\* C9: within one month, over invocations whose fetches have unique ids and
\* whose passes end without error, no id gets more than one new-document
\* notification.
C9_UnAvisoPorId == (pc = "done" /\ limpio) => repetidos = {}

\* C10: an invocation that printed a new-document notification has rewritten
\* the state file when it returns, with a record for every document notified.
C10_AvisadoQuedaGuardado ==
    (pc = "done" /\ Lineas("Nuevo documento") # <<>>) =>
        /\ escrito
        /\ \A i \in 1..(idx - 1) : nuevos[i].id \in Ids(cargar_estado(file))

====
